---- MODULE Spec2Model ----
(***************************************************************************)
(* Resource handlers of the Cosmos DB SQL database and of the MS SQL sync  *)
(* group, as state machines over the local ResourceData, the remote        *)
(* service and the record of the last handler run.                         *)
(*                                                                         *)
(* A handler is a set-valued operator: the set of results it can return,   *)
(* one for every combination of answers of the remote calls it issues.     *)
(* Each result carries the ResourceData after the run, the error returned  *)
(* ("nil" for success, "panic" for a Go runtime panic) and the ordered     *)
(* list of remote calls issued with their answers.                         *)
(***************************************************************************)
EXTENDS Integers, Sequences, FiniteSets, TLC

VARIABLES dbRemote, dbData, sgRemote, sgData, last, topo

vars == <<dbRemote, dbData, sgRemote, sgData, last, topo>>

----------------------------------------------------------------------------
(* Bounds *)

MaxTables == 2
MaxColumns == 2

----------------------------------------------------------------------------
(* Values *)

\* a Go pointer to a string: nil, or the address of v
NilString == [nil |-> TRUE, v |-> ""]
String(s) == [nil |-> FALSE, v |-> s]

DbId == "/resourceGroups/rg/databaseAccounts/acct/sqlDatabases/db"
DbName == "db"
DbAccount == "acct"
DbResourceGroup == "rg"

\* answers of a remote call that reports on the object
Answers == {"ok", "notfound", "error"}
\* answers of a call that looks the object up, by whether the object exists
LookupAnswers(exists) ==
    IF exists THEN {"ok", "error"} ELSE {"notfound", "error"}
\* answers of a wait on an operation handle, and of a call that only starts
\* an operation
Completions == {"ok", "error"}

FixedRates == {400, 800}
AutoscaleRates == {4000}

\* desired throughput settings of a configuration; 0 is "not set"
DbConfigs == [throughput : {0} \cup FixedRates,
              autoscale_settings : {0} \cup AutoscaleRates]

\* the throughput settings the service reports: exactly one of the two
ThroughputResponses ==
    {c \in DbConfigs : (c.throughput = 0) # (c.autoscale_settings = 0)}

NoOptions == [throughput |-> 0, autoscale_settings |-> 0]

\* one remote call of a handler: the client method, its answer, the options
\* of the request body (NoOptions where the call carries none) and the ID of
\* the object in the answer (NilString where the answer carries none)
Call(name, res, opts) ==
    [call |-> name, res |-> res, opts |-> opts, id |-> NilString]
GetCall(res, id) ==
    [call |-> "GetSQLDatabase", res |-> res, opts |-> NoOptions, id |-> id]

\* a handler (or a step of it) returned
Ret(d, err, errId, calls) ==
    [done |-> TRUE, d |-> d, err |-> err, errId |-> errId, calls |-> calls]
\* a step of a handler fell through to the next statement
Cont(d, calls) ==
    [done |-> FALSE, d |-> d, err |-> "nil", errId |-> "", calls |-> calls]

EmptyDbData == [id |-> "", name |-> "", resource_group_name |-> "",
                account_name |-> "", throughput |-> 0,
                autoscale_settings |-> 0]

----------------------------------------------------------------------------
(* Collaborators outside this file *)

\* utils.ResponseWasNotFound / response.WasNotFound
ResponseWasNotFound(res) == res = "notfound"

\* parse.SqlDatabaseID: the composite identifier, or an error
ParseSqlDatabaseID(id) ==
    IF id = DbId
    THEN [err |-> FALSE, ResourceGroup |-> DbResourceGroup,
          Account |-> DbAccount, Name |-> DbName]
    ELSE [err |-> TRUE, ResourceGroup |-> "", Account |-> "", Name |-> ""]

ThroughputModeOf(t) ==
    IF t.throughput # 0 /\ t.autoscale_settings = 0 THEN "Fixed"
    ELSE IF t.throughput = 0 /\ t.autoscale_settings # 0 THEN "Autoscale"
    ELSE IF t.throughput = 0 THEN "Unset" ELSE "Both"

Throughput(d) ==
    [throughput |-> d.throughput, autoscale_settings |-> d.autoscale_settings]

\* common.CheckForChangeFromAutoscaleAndManualThroughput: TRUE when the
\* desired settings switch between manual and autoscale throughput
CheckForChangeFromAutoscaleAndManualThroughput(d, cfg) ==
    {ThroughputModeOf(Throughput(d)), ThroughputModeOf(cfg)}
        = {"Fixed", "Autoscale"}

\* common.HasThroughputChange: the desired settings differ from the observed
HasThroughputChange(d, cfg) == cfg # Throughput(d)

\* common.SetResourceDataThroughputFromResponse
SetResourceDataThroughputFromResponse(resp, d) ==
    [d EXCEPT !.throughput = resp.throughput,
              !.autoscale_settings = resp.autoscale_settings]

----------------------------------------------------------------------------
(* resourceArmCosmosDbSQLDatabaseRead *)

\* DbReadGet with every error of the get returned
DbReadGet_NotFoundIsError(d, get, pre) ==
    LET calls == Append(pre, Call("GetSQLDatabase", get, NoOptions)) IN
    IF get # "ok" THEN Ret(d, "ErrRead", "", calls) ELSE Cont(d, calls)

\* the primary get and its error branch
DbReadGet(d, get, pre) ==
    LET calls == Append(pre, Call("GetSQLDatabase", get, NoOptions)) IN
    IF get # "ok"
    THEN IF ResponseWasNotFound(get)
         THEN Ret([d EXCEPT !.id = ""], "nil", "", calls)
         ELSE Ret(d, "ErrRead", "", calls)
    ELSE Cont(d, calls)

\* d.Set of the identity fields
DbReadSetIdentity(d, id, hasResource) ==
    [d EXCEPT !.resource_group_name = id.ResourceGroup,
              !.account_name = id.Account,
              !.name = IF hasResource THEN id.Name ELSE @]

\* DbReadThroughput with the NotFound test inverted
DbReadThroughput_Inverted(d, thr, thrResp, pre) ==
    LET calls == Append(pre, Call("GetSQLDatabaseThroughput", thr, NoOptions))
    IN
    IF thr # "ok"
    THEN IF ResponseWasNotFound(thr)
         THEN Ret(d, "ErrReadThroughput", "", calls)
         ELSE Ret([d EXCEPT !.throughput = 0, !.autoscale_settings = 0],
                  "nil", "", calls)
    ELSE Ret(SetResourceDataThroughputFromResponse(thrResp, d),
             "nil", "", calls)

\* the throughput sub-read and its branches
DbReadThroughput(d, thr, thrResp, pre) ==
    LET calls == Append(pre, Call("GetSQLDatabaseThroughput", thr, NoOptions))
    IN
    IF thr # "ok"
    THEN IF ~ResponseWasNotFound(thr)
         THEN Ret(d, "ErrReadThroughput", "", calls)
         ELSE Ret([d EXCEPT !.throughput = 0, !.autoscale_settings = 0],
                  "nil", "", calls)
    ELSE Ret(SetResourceDataThroughputFromResponse(thrResp, d),
             "nil", "", calls)

resourceArmCosmosDbSQLDatabaseRead(d, exists, pre) ==
    LET id == ParseSqlDatabaseID(d.id) IN
    IF id.err THEN {Ret(d, "ErrParseId", "", pre)}
    ELSE UNION {
        LET s1 == DbReadGet(d, get, pre) IN
        IF s1.done THEN {s1}
        ELSE UNION {
            LET d1 == DbReadSetIdentity(s1.d, id, hasResource) IN
            UNION {
                IF thr = "ok"
                THEN {DbReadThroughput(d1, thr, resp, s1.calls) :
                          resp \in ThroughputResponses}
                ELSE {DbReadThroughput(d1, thr, NoOptions, s1.calls)}
                : thr \in Answers}
            : hasResource \in BOOLEAN}
        : get \in LookupAnswers(exists)}

----------------------------------------------------------------------------
(* resourceArmCosmosDbSQLDatabaseCreate *)

\* DbCreateCheckExisting that goes on to the create when the object exists
DbCreateCheckExisting_Adopts(d, exist, existId, pre) ==
    LET calls == Append(pre, GetCall(exist, existId)) IN
    IF exist # "ok" /\ ~ResponseWasNotFound(exist)
    THEN Ret(d, "ErrCheckPresence", "", calls)
    ELSE Cont(d, calls)

\* the check for a pre-existing remote object. In
\*   existing.ID == nil && *existing.ID == ""
\* the right operand is evaluated exactly when the left one is true, so a
\* nil ID is dereferenced (runtime panic) and a non-nil ID never takes the
\* branch.
DbCreateCheckExisting(d, exist, existId, pre) ==
    LET calls == Append(pre, GetCall(exist, existId)) IN
    IF exist # "ok"
    THEN IF ~ResponseWasNotFound(exist)
         THEN Ret(d, "ErrCheckPresence", "", calls)
         ELSE Cont(d, calls)
    ELSE IF existId.nil
         THEN Ret(d, "panic", "", calls)
         ELSE IF existId.nil /\ existId.v = ""
              THEN Ret(d, "ErrGeneratingImportId", "", calls)
              ELSE Ret(d, "AlreadyExists", existId.v, calls)

\* the options of the create request, from d.GetOk of the two settings
\* (GetOk reports a setting that is not the zero value; the throughput is
\* tested against 0 once more); each option is filled in on its own
DbCreateOptions(cfg) ==
    [throughput |->
         IF cfg.throughput # 0 /\ cfg.throughput # 0
         THEN cfg.throughput ELSE 0,
     autoscale_settings |->
         IF cfg.autoscale_settings # 0 THEN cfg.autoscale_settings ELSE 0]

\* DbCreateUpsert that goes on without the wait on the future
DbCreateUpsert_NoWait(d, opts, create, wait, pre) ==
    LET c1 == Append(pre, Call("CreateUpdateSQLDatabase", create, opts)) IN
    IF create # "ok" THEN Ret(d, "ErrIssueCreate", "", c1)
    ELSE Cont(d, c1)

\* the create/update request and the wait on its future
DbCreateUpsert(d, opts, create, wait, pre) ==
    LET c1 == Append(pre, Call("CreateUpdateSQLDatabase", create, opts)) IN
    IF create # "ok" THEN Ret(d, "ErrIssueCreate", "", c1)
    ELSE LET c2 == Append(c1, Call("WaitForCompletionRef", wait, NoOptions))
         IN IF wait # "ok" THEN Ret(d, "ErrWaitCreate", "", c2)
            ELSE Cont(d, c2)

\* the get after the create, and d.SetId
DbCreateSetId(d, get, getId, pre) ==
    LET calls == Append(pre, GetCall(get, getId)) IN
    IF get # "ok" THEN Ret(d, "ErrGet", "", calls)
    ELSE IF getId.nil THEN Ret(d, "ErrGetId", "", calls)
    ELSE Cont([d EXCEPT !.id = getId.v], calls)

\* the IDs a successful get can carry
ResponseIds == {NilString, String(""), String(DbId)}

resourceArmCosmosDbSQLDatabaseCreate(d, cfg, exists) ==
    UNION {
        UNION {
            LET s1 == DbCreateCheckExisting(d, exist, existId, <<>>) IN
            IF s1.done THEN {s1}
            ELSE UNION {
                LET s2 == DbCreateUpsert(s1.d, DbCreateOptions(cfg),
                                         create, wait, s1.calls) IN
                IF s2.done THEN {s2}
                ELSE UNION {
                    UNION {
                        LET s3 == DbCreateSetId(s2.d, get, getId, s2.calls) IN
                        IF s3.done THEN {s3}
                        ELSE resourceArmCosmosDbSQLDatabaseRead(s3.d, TRUE,
                                                                s3.calls)
                        : getId \in (IF get = "ok" THEN ResponseIds
                                     ELSE {NilString})}
                    : get \in LookupAnswers(TRUE)}
                : create \in Completions, wait \in Completions}
            : existId \in (IF exist = "ok" THEN ResponseIds ELSE {NilString})}
        : exist \in LookupAnswers(exists)}

----------------------------------------------------------------------------
(* resourceArmCosmosDbSQLDatabaseUpdate *)

\* DbUpdateCheckMode with the result of the check dropped
DbUpdateCheckMode_Ignored(d, cfg, pre) == Cont(d, pre)

\* the check for a switch between manual and autoscale throughput
DbUpdateCheckMode(d, cfg, pre) ==
    IF CheckForChangeFromAutoscaleAndManualThroughput(d, cfg)
    THEN Ret(d, "ErrConflictingThroughputMode", "", pre)
    ELSE Cont(d, pre)

\* DbUpdateThroughput issued on every update
DbUpdateThroughput_Always(d, cfg, setThr, wait, pre) ==
    LET c1 == Append(pre, Call("UpdateSQLDatabaseThroughput", setThr, cfg))
        c2 == Append(c1, Call("WaitForCompletionRef", wait, NoOptions))
    IN IF setThr # "ok" /\ ResponseWasNotFound(setThr)
       THEN Ret(d, "ErrThroughputNotConfigurable", "", c1)
       ELSE IF wait # "ok"
            THEN Ret(d, "ErrWaitThroughput", "", c2)
            ELSE Cont(d, c2)

\* DbUpdateThroughput without the NotFound test: every answer of the call
\* goes on to the wait on the future
DbUpdateThroughput_NotFoundWaits(d, cfg, setThr, wait, pre) ==
    IF HasThroughputChange(d, cfg)
    THEN LET c1 == Append(pre, Call("UpdateSQLDatabaseThroughput", setThr, cfg))
             c2 == Append(c1, Call("WaitForCompletionRef", wait, NoOptions))
         IN IF wait # "ok"
            THEN Ret(d, "ErrWaitThroughput", "", c2)
            ELSE Cont(d, c2)
    ELSE Cont(d, pre)

\* the throughput update: issued when HasThroughputChange. An error of the
\* call that is not NotFound falls through to the wait on the future.
DbUpdateThroughput(d, cfg, setThr, wait, pre) ==
    IF HasThroughputChange(d, cfg)
    THEN LET c1 == Append(pre, Call("UpdateSQLDatabaseThroughput", setThr, cfg))
             c2 == Append(c1, Call("WaitForCompletionRef", wait, NoOptions))
         IN IF setThr # "ok" /\ ResponseWasNotFound(setThr)
            THEN Ret(d, "ErrThroughputNotConfigurable", "", c1)
            ELSE IF wait # "ok"
                 THEN Ret(d, "ErrWaitThroughput", "", c2)
                 ELSE Cont(d, c2)
    ELSE Cont(d, pre)

resourceArmCosmosDbSQLDatabaseUpdate(d, cfg, exists) ==
    LET id == ParseSqlDatabaseID(d.id) IN
    IF id.err THEN {Ret(d, "ErrParseId", "", <<>>)}
    ELSE
    LET s1 == DbUpdateCheckMode(d, cfg, <<>>) IN
    IF s1.done THEN {s1}
    ELSE UNION {
        LET s2 == DbCreateUpsert(s1.d, NoOptions, create, wait, s1.calls) IN
        IF s2.done THEN {s2}
        ELSE UNION {
            LET s3 == DbUpdateThroughput(s2.d, cfg, setThr, waitThr, s2.calls)
            IN IF s3.done THEN {s3}
               ELSE resourceArmCosmosDbSQLDatabaseRead(s3.d, TRUE, s3.calls)
            : setThr \in Answers, waitThr \in Completions}
        : create \in Completions, wait \in Completions}

----------------------------------------------------------------------------
(* resourceArmCosmosDbSQLDatabaseDelete *)

\* the delete request: NotFound is let through to the wait on the future
DbDeleteIssue(d, del, pre) ==
    LET calls == Append(pre, Call("DeleteSQLDatabase", del, NoOptions)) IN
    IF del # "ok" /\ ~ResponseWasNotFound(del)
    THEN Ret(d, "ErrDelete", "", calls)
    ELSE Cont(d, calls)

\* the wait on the delete future
DbDeleteWait(d, wait, pre) ==
    LET calls == Append(pre, Call("WaitForCompletionRef", wait, NoOptions)) IN
    IF wait # "ok" THEN Ret(d, "ErrWaitDelete", "", calls)
    ELSE Ret(d, "nil", "", calls)

resourceArmCosmosDbSQLDatabaseDelete(d, exists) ==
    LET id == ParseSqlDatabaseID(d.id) IN
    IF id.err THEN {Ret(d, "ErrParseId", "", <<>>)}
    ELSE UNION {
        LET s1 == DbDeleteIssue(d, del, <<>>) IN
        IF s1.done THEN {s1}
        ELSE {DbDeleteWait(s1.d, wait, s1.calls) : wait \in Completions}
        : del \in LookupAnswers(exists)}

----------------------------------------------------------------------------
(* Sync group topology: the local and the wire representation *)

SeqsUpTo(S, n) == UNION {[1..k -> S] : k \in 0..n}

ColumnNames == {"[ProductID]", "[Color]"}
TableNames == {"[SalesLT].[Product]", "[SalesLT].[Customer]"}

\* a column and a table of the local representation: maps keyed by the
\* names of the schema
Columns == [name : ColumnNames, data_size : {"4"}, data_type : {"int"}]
Tables(maxColumns) == [name : TableNames, column : SeqsUpTo(Columns, maxColumns)]

Topologies == SeqsUpTo(Tables(MaxColumns), MaxTables)

\* a Go pointer to a slice
NilSlice == [nil |-> TRUE, v |-> <<>>]
Slice(s) == [nil |-> FALSE, v |-> s]

\* the result of an expansion: a runtime panic, or the slice built
Panicked == [panic |-> TRUE, v |-> <<>>]
Expanded(s) == [panic |-> FALSE, v |-> s]

\* m[key].(T) on a map[string]interface{}: a key that is absent yields the
\* nil interface, and the type assertion on it panics
AssertionPanics(m, key) == key \notin DOMAIN m

expandMsSqlSyncGroupSchemaTableColumns(columns) ==
    IF \E i \in 1..Len(columns) :
           \/ AssertionPanics(columns[i], "name")
           \/ AssertionPanics(columns[i], "data_size")
           \/ AssertionPanics(columns[i], "data_type")
    THEN Panicked
    ELSE Expanded([i \in 1..Len(columns) |->
                      [QuotedName |-> String(columns[i]["name"]),
                       DataSize |-> String(columns[i]["data_size"]),
                       DataType |-> String(columns[i]["data_type"])]])

expandMsSqlSyncGroupSchemaTables(tables) ==
    LET cols(i) ==
            IF AssertionPanics(tables[i], "columns") THEN Panicked
            ELSE expandMsSqlSyncGroupSchemaTableColumns(tables[i]["columns"])
    IN
    IF \E i \in 1..Len(tables) :
           cols(i).panic \/ AssertionPanics(tables[i], "name")
    THEN Panicked
    ELSE Expanded([i \in 1..Len(tables) |->
                      [Columns |-> Slice(cols(i).v),
                       QuotedName |-> String(tables[i]["name"])]])

flattenMsSqlSyncGroupSchemaTableColumns(columns) ==
    IF columns.nil THEN <<>>
    ELSE [i \in 1..Len(columns.v) |->
             LET column == columns.v[i] IN
             [name |-> IF column.QuotedName.nil THEN ""
                       ELSE column.QuotedName.v,
              data_size |-> IF column.DataSize.nil THEN ""
                            ELSE column.DataSize.v,
              data_type |-> IF column.DataType.nil THEN ""
                            ELSE column.DataType.v]]

flattenMsSqlSyncGroupSchemaTables(tables) ==
    IF tables.nil THEN <<>>
    ELSE [i \in 1..Len(tables.v) |->
             LET table == tables.v[i] IN
             [name |-> IF table.QuotedName.nil THEN ""
                       ELSE table.QuotedName.v,
              column |-> flattenMsSqlSyncGroupSchemaTableColumns(table.Columns)]]

----------------------------------------------------------------------------
(* The sync group resource *)

SgId == "/resourceGroups/rg/servers/srv/databases/hub/syncGroups/sg"
SgName == "sg"
SgResourceGroup == "rg"
SgServerName == "srv"
SgDatabaseName == "hub"

EmptySgData == [id |-> "", name |-> "", resource_group_name |-> "",
                server_name |-> "", database_name |-> "", interval |-> 0,
                table |-> <<>>]

\* the keys the schema of the resource declares, with the Go type d.Get
\* returns for each
SgSchema ==
    [name |-> "string", resource_group_name |-> "string",
     server_name |-> "string", database_name |-> "string",
     conflict_resolution_policy |-> "string", interval |-> "int",
     sync_database_id |-> "string", hub_database_username |-> "string",
     hub_database_password |-> "string",
     primary_sync_member_name |-> "string", table |-> "[]interface{}"]

\* d.Get(key).(goType): d.Get of a key the schema does not declare is the nil
\* interface; the assertion panics unless the dynamic type is goType
GetAssertionPanics(key, goType) ==
    \/ key \notin DOMAIN SgSchema
    \/ SgSchema[key] # goType

\* one remote call of a sync group handler, with the tables of its request
SgCall(name, res, tables) == [call |-> name, res |-> res, tables |-> tables]

\* parse.SqlSyncGroupID: the composite identifier, or an error
ParseSqlSyncGroupID(id) ==
    IF id = SgId
    THEN [err |-> FALSE, ResourceGroup |-> SgResourceGroup,
          ServerName |-> SgServerName, DatabaseName |-> SgDatabaseName,
          Name |-> SgName]
    ELSE [err |-> TRUE, ResourceGroup |-> "", ServerName |-> "",
          DatabaseName |-> "", Name |-> ""]

\* the get of the read and its error branch
SgReadGet(d, get, pre) ==
    LET calls == Append(pre, SgCall("Get", get, <<>>)) IN
    IF get # "ok"
    THEN IF ResponseWasNotFound(get)
         THEN Ret([d EXCEPT !.id = ""], "nil", "", calls)
         ELSE Ret(d, "ErrRead", "", calls)
    ELSE Cont(d, calls)

\* the d.Set calls of the read, from the identifier and the response; resp
\* is [intervalNil, schemaNil, tables]
SgReadSet(d, id, resp, calls) ==
    LET d1 == [d EXCEPT !.name = id.Name,
                        !.resource_group_name = id.ResourceGroup,
                        !.server_name = id.ServerName,
                        !.database_name = id.DatabaseName]
        d2 == [d1 EXCEPT !.interval = 60]
    IN
    IF resp.intervalNil THEN Ret(d1, "ErrIntervalNull", "", calls)
    ELSE IF ~resp.schemaNil
         THEN Ret([d2 EXCEPT !.table =
                       flattenMsSqlSyncGroupSchemaTables(resp.tables)],
                  "nil", "", calls)
         ELSE Ret(d2, "nil", "", calls)

resourceArmMsSqlSyncGroupRead(d, remote, pre) ==
    LET id == ParseSqlSyncGroupID(d.id) IN
    IF id.err THEN {Ret(d, "ErrParseId", "", pre)}
    ELSE UNION {
        LET s1 == SgReadGet(d, get, pre) IN
        IF s1.done THEN {s1}
        ELSE {SgReadSet(s1.d, id,
                        [intervalNil |-> intervalNil, schemaNil |-> schemaNil,
                         tables |-> remote.tables], s1.calls) :
                  intervalNil \in BOOLEAN, schemaNil \in BOOLEAN}
        : get \in LookupAnswers(remote.exists)}

\* the d.Get(...).(string) of the identity and credential fields
SgGetStringsPanics ==
    \E key \in {"name", "resource_group_name", "server_name",
                "database_name", "sync_database_id",
                "hub_database_username", "hub_database_password"} :
        GetAssertionPanics(key, "string")

\* the request body: the conflict resolution policy is asserted to the SDK's
\* named string type, and the tables are read from the key "tables"
SgProperties(cfg) ==
    IF GetAssertionPanics("conflict_resolution_policy",
                          "sql.SyncConflictResolutionPolicy")
    THEN Panicked
    ELSE IF GetAssertionPanics("tables", "[]interface{}")
    THEN Panicked
    ELSE expandMsSqlSyncGroupSchemaTables(cfg["tables"])

\* the create/update request and the wait on its future
SgUpsert(d, tables, create, wait, pre) ==
    LET c1 == Append(pre, SgCall("CreateOrUpdate", create, tables)) IN
    IF create # "ok" THEN Ret(d, "ErrCreateOrUpdate", "", c1)
    ELSE LET c2 == Append(c1, SgCall("WaitForCompletionRef", wait, <<>>))
         IN IF wait # "ok" THEN Ret(d, "ErrWaitCreateOrUpdate", "", c2)
            ELSE Cont(d, c2)

resourceArmMsSqlSyncGroupCreateUpdate(d, cfg, remote) ==
    IF SgGetStringsPanics THEN {Ret(d, "panic", "", <<>>)}
    ELSE LET properties == SgProperties(cfg) IN
    IF properties.panic THEN {Ret(d, "panic", "", <<>>)}
    ELSE UNION {
        LET s1 == SgUpsert(d, properties.v, create, wait, <<>>) IN
        IF s1.done THEN {s1}
        ELSE resourceArmMsSqlSyncGroupRead(
                 s1.d, [exists |-> TRUE, tables |-> Slice(properties.v)],
                 s1.calls)
        : create \in Completions, wait \in Completions}

\* the delete request: every error of it is returned
SgDeleteIssue(d, del, pre) ==
    LET calls == Append(pre, SgCall("Delete", del, <<>>)) IN
    IF del # "ok" THEN Ret(d, "ErrDelete", "", calls)
    ELSE Cont(d, calls)

\* the wait on the delete future, whose error is the handler's result
SgDeleteWait(d, wait, pre) ==
    LET calls == Append(pre, SgCall("WaitForCompletionRef", wait, <<>>)) IN
    IF wait # "ok" THEN Ret(d, "ErrWaitDelete", "", calls)
    ELSE Ret(d, "nil", "", calls)

resourceArmMsSqlSyncGroupDelete(d, exists) ==
    LET id == ParseSqlSyncGroupID(d.id) IN
    IF id.err THEN {Ret(d, "ErrParseId", "", <<>>)}
    ELSE UNION {
        LET s1 == SgDeleteIssue(d, del, <<>>) IN
        IF s1.done THEN {s1}
        ELSE {SgDeleteWait(s1.d, wait, s1.calls) : wait \in Completions}
        : del \in LookupAnswers(exists)}

----------------------------------------------------------------------------
(* Expand followed by flatten, applied to a topology *)

TopoIdle == [stage |-> "idle", t |-> <<>>, wire |-> Panicked, out |-> <<>>]

InitTopo ==
    /\ topo \in [stage : {"input"}, t : Topologies, wire : {Panicked},
                 out : {<<>>}]
    /\ dbRemote = [exists |-> FALSE]
    /\ dbData = EmptyDbData
    /\ sgRemote = [exists |-> FALSE, tables |-> NilSlice]
    /\ sgData = EmptySgData
    /\ last = [op |-> "none", err |-> "nil", errId |-> "", calls |-> <<>>,
               cfg |-> NoOptions, pre |-> EmptyDbData, existed |-> FALSE]

TopoExpand ==
    /\ topo.stage = "input"
    /\ topo' = [topo EXCEPT !.stage = "expanded",
                            !.wire = expandMsSqlSyncGroupSchemaTables(topo.t)]
    /\ UNCHANGED <<dbRemote, dbData, sgRemote, sgData, last>>

TopoFlatten ==
    /\ topo.stage = "expanded"
    /\ ~topo.wire.panic
    /\ topo' = [topo EXCEPT !.stage = "flattened",
                            !.out = flattenMsSqlSyncGroupSchemaTables(
                                        Slice(topo.wire.v))]
    /\ UNCHANGED <<dbRemote, dbData, sgRemote, sgData, last>>

NextTopo == TopoExpand \/ TopoFlatten

SpecTopo == InitTopo /\ [][NextTopo]_vars

\* C10: expand followed by flatten gives back every well-formed topology:
\* the expansion completes and the flattened result equals the input.
C10_RoundTrip ==
    /\ topo.stage = "expanded" => ~topo.wire.panic
    /\ topo.stage = "flattened" => topo.out = topo.t

----------------------------------------------------------------------------
(* The handlers run against the remote service *)

\* whether the remote object exists after the calls of a handler run: a
\* create/update or a delete takes effect when its operation completes
RemoteAfter(exists, calls, upsert, delete) ==
    LET completed(name) ==
            \E i \in 1..(Len(calls) - 1) :
                /\ calls[i].call = name /\ calls[i].res = "ok"
                /\ calls[i + 1].call = "WaitForCompletionRef"
                /\ calls[i + 1].res = "ok"
    IN IF completed(upsert) THEN TRUE
       ELSE IF completed(delete) THEN FALSE
       ELSE exists

\* the tables of the remote sync group after the calls of a handler run
TablesAfter(remote, calls) ==
    IF \E i \in 1..(Len(calls) - 1) :
           /\ calls[i].call = "CreateOrUpdate" /\ calls[i].res = "ok"
           /\ calls[i + 1].res = "ok"
    THEN Slice((CHOOSE c \in {calls[i] : i \in 1..Len(calls)} :
                    c.call = "CreateOrUpdate").tables)
    ELSE IF RemoteAfter(remote.exists, calls, "CreateOrUpdate", "Delete")
         THEN remote.tables
         ELSE NilSlice

\* the record of a handler run: the handler, its result, the configuration
\* it ran with, the ResourceData it started from and whether the remote
\* object existed
Ran(op, r, cfg, pre, existed) ==
    [op |-> op, err |-> r.err, errId |-> r.errId, calls |-> r.calls,
     cfg |-> cfg, pre |-> pre, existed |-> existed]

\* configurations of an update: a well-formed throughput mode
DbUpdateConfigs == {c \in DbConfigs : ThroughputModeOf(c) # "Both"}

\* the ResourceData of a resource in the persisted state
PersistedDbData ==
    {[id |-> DbId, name |-> DbName, resource_group_name |-> DbResourceGroup,
      account_name |-> DbAccount, throughput |-> c.throughput,
      autoscale_settings |-> c.autoscale_settings] : c \in DbUpdateConfigs}

\* configured topologies of the handler runs: one table with one column
ConfigTopologies ==
    {<<[name |-> "[SalesLT].[Product]", column |-> <<c>>]>> : c \in Columns}

\* tables of the remote sync group
WireTables ==
    {NilSlice,
     Slice(<<[Columns |-> Slice(<<[QuotedName |-> String("[Color]"),
                                   DataSize |-> NilString,
                                   DataType |-> String("int")]>>),
              QuotedName |-> String("[SalesLT].[Product]")]>>)}

PersistedSgData ==
    {[id |-> SgId, name |-> SgName, resource_group_name |-> SgResourceGroup,
      server_name |-> SgServerName, database_name |-> SgDatabaseName,
      interval |-> 60, table |-> t] : t \in ConfigTopologies}

Init ==
    /\ dbRemote \in [exists : BOOLEAN]
    /\ dbData \in {EmptyDbData} \cup PersistedDbData
    /\ sgRemote \in {[exists |-> FALSE, tables |-> NilSlice]}
                    \cup [exists : {TRUE}, tables : WireTables]
    /\ sgData \in {EmptySgData} \cup PersistedSgData
    /\ last = [op |-> "none", err |-> "nil", errId |-> "", calls |-> <<>>,
               cfg |-> NoOptions, pre |-> EmptyDbData, existed |-> FALSE]
    /\ topo = TopoIdle

DbCreate ==
    /\ dbData.id = ""
    /\ \E cfg \in DbConfigs :
       \E r \in resourceArmCosmosDbSQLDatabaseCreate(EmptyDbData, cfg,
                                                     dbRemote.exists) :
           /\ dbData' = r.d
           /\ dbRemote' = [exists |-> RemoteAfter(dbRemote.exists, r.calls,
                               "CreateUpdateSQLDatabase", "DeleteSQLDatabase")]
           /\ last' = Ran("dbCreate", r, cfg, EmptyDbData, dbRemote.exists)
    /\ UNCHANGED <<sgRemote, sgData, topo>>

DbUpdate ==
    /\ dbData.id # ""
    /\ \E cfg \in DbUpdateConfigs :
       \E r \in resourceArmCosmosDbSQLDatabaseUpdate(dbData, cfg,
                                                     dbRemote.exists) :
           /\ dbData' = r.d
           /\ dbRemote' = [exists |-> RemoteAfter(dbRemote.exists, r.calls,
                               "CreateUpdateSQLDatabase", "DeleteSQLDatabase")]
           /\ last' = Ran("dbUpdate", r, cfg, dbData, dbRemote.exists)
    /\ UNCHANGED <<sgRemote, sgData, topo>>

DbRead ==
    /\ dbData.id # ""
    /\ \E r \in resourceArmCosmosDbSQLDatabaseRead(dbData, dbRemote.exists,
                                                   <<>>) :
           /\ dbData' = r.d
           /\ last' = Ran("dbRead", r, NoOptions, dbData, dbRemote.exists)
    /\ UNCHANGED <<dbRemote, sgRemote, sgData, topo>>

DbDelete ==
    /\ dbData.id # ""
    /\ \E r \in resourceArmCosmosDbSQLDatabaseDelete(dbData, dbRemote.exists) :
           /\ dbData' = r.d
           /\ dbRemote' = [exists |-> RemoteAfter(dbRemote.exists, r.calls,
                               "CreateUpdateSQLDatabase", "DeleteSQLDatabase")]
           /\ last' = Ran("dbDelete", r, NoOptions, dbData, dbRemote.exists)
    /\ UNCHANGED <<sgRemote, sgData, topo>>

\* the create of a sync group: a new ResourceData
SgCreate ==
    /\ sgData.id = ""
    /\ \E t \in ConfigTopologies :
       \E r \in resourceArmMsSqlSyncGroupCreateUpdate(
                    EmptySgData, [table |-> t], sgRemote) :
           /\ sgData' = r.d
           /\ sgRemote' = [exists |-> RemoteAfter(sgRemote.exists, r.calls,
                                          "CreateOrUpdate", "Delete"),
                           tables |-> TablesAfter(sgRemote, r.calls)]
           /\ last' = Ran("sgCreate", r, t, EmptySgData, sgRemote.exists)
    /\ UNCHANGED <<dbRemote, dbData, topo>>

\* the update of a sync group: the same handler on the ResourceData of the
\* state
SgUpdate ==
    /\ sgData.id # ""
    /\ \E t \in ConfigTopologies :
       \E r \in resourceArmMsSqlSyncGroupCreateUpdate(
                    sgData, [table |-> t], sgRemote) :
           /\ sgData' = r.d
           /\ sgRemote' = [exists |-> RemoteAfter(sgRemote.exists, r.calls,
                                          "CreateOrUpdate", "Delete"),
                           tables |-> TablesAfter(sgRemote, r.calls)]
           /\ last' = Ran("sgUpdate", r, t, sgData, sgRemote.exists)
    /\ UNCHANGED <<dbRemote, dbData, topo>>

SgRead ==
    /\ sgData.id # ""
    /\ \E r \in resourceArmMsSqlSyncGroupRead(sgData, sgRemote, <<>>) :
           /\ sgData' = r.d
           /\ last' = Ran("sgRead", r, <<>>, sgData, sgRemote.exists)
    /\ UNCHANGED <<dbRemote, dbData, sgRemote, topo>>

SgDelete ==
    /\ sgData.id # ""
    /\ \E r \in resourceArmMsSqlSyncGroupDelete(sgData, sgRemote.exists) :
           /\ sgData' = r.d
           /\ sgRemote' = [exists |-> RemoteAfter(sgRemote.exists, r.calls,
                                          "CreateOrUpdate", "Delete"),
                           tables |-> TablesAfter(sgRemote, r.calls)]
           /\ last' = Ran("sgDelete", r, <<>>, sgData, sgRemote.exists)
    /\ UNCHANGED <<dbRemote, dbData, topo>>

Next ==
    \/ DbCreate \/ DbUpdate \/ DbRead \/ DbDelete
    \/ SgCreate \/ SgUpdate \/ SgRead \/ SgDelete

Spec == Init /\ [][Next]_vars

----------------------------------------------------------------------------
(* Properties of the handlers *)

\* the handler run recorded in last issued the named call
Issued(name) == \E i \in 1..Len(last.calls) : last.calls[i].call = name

\* the first remote call of the handler run recorded in last
FirstCall == last.calls[1]

\* C1: a document-database delete whose delete call answers NotFound returns
\* nil, whatever the wait on the returned future answers.
C1_DbDeleteNotFoundIsSuccess ==
    (/\ last.op = "dbDelete"
     /\ Len(last.calls) >= 1
     /\ FirstCall.call = "DeleteSQLDatabase"
     /\ FirstCall.res = "notfound")
        => last.err = "nil"

\* C2: a sync group delete whose delete call answers NotFound returns nil.
C2_SgDeleteNotFoundIsSuccess ==
    (/\ last.op = "sgDelete"
     /\ Len(last.calls) >= 1
     /\ FirstCall.call = "Delete"
     /\ FirstCall.res = "notfound")
        => last.err = "nil"

\* C3: a document-database create whose existence check finds a remote
\* object with an ID fails with AlreadyExists carrying that ID, issues no
\* call after the check and leaves the resource ID unset.
C3_DbCreateAlreadyExists ==
    (/\ last.op = "dbCreate"
     /\ Len(last.calls) >= 1
     /\ FirstCall.res = "ok"
     /\ ~FirstCall.id.nil)
        => /\ last.err = "AlreadyExists"
           /\ last.errId = FirstCall.id.v
           /\ ~Issued("CreateUpdateSQLDatabase")
           /\ Len(last.calls) = 1
           /\ dbData.id = ""

C3_Witness ==
    /\ last.op = "dbCreate"
    /\ last.existed
    /\ Len(last.calls) = 1
    /\ FirstCall.res = "ok"
    /\ FirstCall.id = String(DbId)
    /\ last.err = "AlreadyExists"
    /\ last.errId = DbId

\* C4: a sync group create on an identity that exists remotely fails with
\* the requires-import (AlreadyExists) error and issues no CreateOrUpdate.
C4_SgCreateRequiresImport ==
    (last.op = "sgCreate" /\ last.existed)
        => /\ last.err = "AlreadyExists"
           /\ ~Issued("CreateOrUpdate")

\* C5: a document-database create with both a fixed throughput and autoscale
\* settings fails before any remote call, and no create request carries both
\* options.
C5_DbCreateBothIsValidationError ==
    /\ (last.op = "dbCreate" /\ ThroughputModeOf(last.cfg) = "Both")
           => (last.err # "nil" /\ last.calls = <<>>)
    /\ last.op = "dbCreate"
           => \A i \in 1..Len(last.calls) :
                  last.calls[i].call = "CreateUpdateSQLDatabase"
                      => ThroughputModeOf(last.calls[i].opts) # "Both"

\* the update recorded in last switches between manual and autoscale
ModeSwitch ==
    {ThroughputModeOf(Throughput(last.pre)), ThroughputModeOf(last.cfg)}
        = {"Fixed", "Autoscale"}

\* C6: a document-database update whose desired throughput mode differs from
\* the observed one (Fixed to Autoscale or Autoscale to Fixed) returns the
\* conflicting-mode error and issues no remote call at all.
C6_DbUpdateModeSwitch ==
    (last.op = "dbUpdate" /\ ModeSwitch)
        => /\ last.err = "ErrConflictingThroughputMode"
           /\ last.calls = <<>>
           /\ dbData = last.pre

C6_Witness ==
    /\ last.op = "dbUpdate"
    /\ last.pre.throughput = 400
    /\ last.pre.autoscale_settings = 0
    /\ last.cfg = [throughput |-> 0, autoscale_settings |-> 4000]
    /\ last.err = "ErrConflictingThroughputMode"

\* the full-resource upsert of the update recorded in last completed
UpsertCompleted ==
    /\ Len(last.calls) >= 2
    /\ last.calls[1].call = "CreateUpdateSQLDatabase"
    /\ last.calls[1].res = "ok"
    /\ last.calls[2].call = "WaitForCompletionRef"
    /\ last.calls[2].res = "ok"

\* C7 as stated: a document-database update issues the set-throughput call
\* if and only if the desired throughput differs from the observed one.
C7_SetThroughputIffChanged ==
    last.op = "dbUpdate"
        => (Issued("UpdateSQLDatabaseThroughput")
                <=> last.cfg # Throughput(last.pre))

\* C7 amended: a document-database update issues the set-throughput call if
\* and only if the desired throughput differs from the observed one, the
\* change is no switch between manual and autoscale, and the full-resource
\* upsert and the wait on it succeeded; with equal desired and observed
\* throughput no set-throughput call is issued.
C7_SetThroughputIffChangedAndUpserted ==
    last.op = "dbUpdate"
        => /\ Issued("UpdateSQLDatabaseThroughput")
                  <=> (/\ last.cfg # Throughput(last.pre)
                       /\ ~ModeSwitch
                       /\ UpsertCompleted)
           /\ last.cfg = Throughput(last.pre)
                  => ~Issued("UpdateSQLDatabaseThroughput")

C7_Witness ==
    /\ last.op = "dbUpdate"
    /\ last.pre.throughput = 400
    /\ last.cfg = [throughput |-> 800, autoscale_settings |-> 0]
    /\ Len(last.calls) >= 3
    /\ last.calls[3].call = "UpdateSQLDatabaseThroughput"
    /\ last.calls[3].opts = last.cfg

\* C8: for both kinds, a read whose primary get answers NotFound returns
\* nil, clears the resource ID and writes no other field; the document
\* database read does so without a throughput sub-read.
C8_ReadNotFoundDropsState ==
    /\ (/\ last.op = "dbRead"
        /\ Len(last.calls) >= 1
        /\ FirstCall.res = "notfound")
           => /\ last.err = "nil"
              /\ dbData = [last.pre EXCEPT !.id = ""]
              /\ ~Issued("GetSQLDatabaseThroughput")
    /\ (/\ last.op = "sgRead"
        /\ Len(last.calls) >= 1
        /\ FirstCall.res = "notfound")
           => /\ last.err = "nil"
              /\ sgData = [last.pre EXCEPT !.id = ""]

\* a sync group read has just dropped its state, and the ResourceData of
\* the document database is the one a read with NotFound leaves
C8_Witness ==
    /\ last.op = "sgRead"
    /\ FirstCall.res = "notfound"
    /\ last.pre.id = SgId
    /\ sgData.id = ""
    /\ sgData.name = SgName
    /\ dbData.id = ""
    /\ dbData.account_name = DbAccount

\* the last call of the handler run recorded in last
LastCall == last.calls[Len(last.calls)]

\* C9: a document-database read whose primary get succeeds and whose
\* throughput sub-read answers NotFound returns nil, keeps the resource ID
\* and clears both throughput and autoscale settings; any other error of the
\* sub-read is returned.
C9_ReadThroughputNotFoundIsUnset ==
    (/\ last.op \in {"dbRead", "dbCreate", "dbUpdate"}
     /\ Len(last.calls) >= 2
     /\ LastCall.call = "GetSQLDatabaseThroughput"
     /\ last.calls[Len(last.calls) - 1].res = "ok")
        => /\ LastCall.res = "notfound"
                  => /\ last.err = "nil"
                     /\ dbData.id = DbId
                     /\ ThroughputModeOf(Throughput(dbData)) = "Unset"
           /\ LastCall.res = "error" => last.err = "ErrReadThroughput"

C9_Witness ==
    /\ last.op = "dbRead"
    /\ Len(last.calls) = 2
    /\ last.calls[1].res = "ok"
    /\ last.calls[2].call = "GetSQLDatabaseThroughput"
    /\ last.calls[2].res = "notfound"
    /\ last.pre.throughput = 400
    /\ last.err = "nil"
    /\ dbData.id = DbId
    /\ dbData.throughput = 0

\* every remote call of the handler run recorded in last succeeded
AllCallsSucceeded == \A i \in 1..Len(last.calls) : last.calls[i].res = "ok"

\* C11: a sync group create in which the remote operations succeed issues
\* CreateOrUpdate, returns nil, has the remote identifier of the group as
\* its ID and holds the name, server, database and resource group read back,
\* so that the group can be looked up from the state.
C11_SgCreateSetsIdAndState ==
    (last.op = "sgCreate" /\ AllCallsSucceeded)
        => /\ Issued("CreateOrUpdate")
           /\ last.err = "nil"
           /\ sgData.id = SgId
           /\ sgData.name = SgName
           /\ sgData.server_name = SgServerName
           /\ sgData.database_name = SgDatabaseName
           /\ sgData.resource_group_name = SgResourceGroup
           /\ sgRemote.exists

\* the handlers of the document database
DbHandlers == {"dbCreate", "dbUpdate", "dbRead", "dbDelete"}

\* C12: every error other than NotFound that a remote call of a
\* document-database handler answers is returned by the handler; in
\* particular such an error of the set-throughput call makes update return
\* an error.
C12_DbErrorsAreReturned ==
    /\ (/\ last.op \in DbHandlers
        /\ \E i \in 1..Len(last.calls) : last.calls[i].res = "error")
           => last.err # "nil"
    /\ (/\ last.op = "dbUpdate"
        /\ \E i \in 1..Len(last.calls) :
               /\ last.calls[i].call = "UpdateSQLDatabaseThroughput"
               /\ last.calls[i].res = "error")
           => last.err # "nil"

\* C13: a document-database update whose set-throughput call answers
\* NotFound returns the throughput-not-configurable error at once: the
\* set-throughput call is the last remote call, so there is no wait on its
\* future and no final read, and the ResourceData is left as it was.
C13_SetThroughputNotFound ==
    last.op = "dbUpdate"
        => \A i \in 1..Len(last.calls) :
               (/\ last.calls[i].call = "UpdateSQLDatabaseThroughput"
                /\ last.calls[i].res = "notfound")
                   => /\ last.err = "ErrThroughputNotConfigurable"
                      /\ i = Len(last.calls)
                      /\ ~Issued("GetSQLDatabase")
                      /\ dbData = last.pre

C13_Witness ==
    /\ last.op = "dbUpdate"
    /\ ThroughputModeOf(Throughput(last.pre)) = "Unset"
    /\ last.cfg = [throughput |-> 400, autoscale_settings |-> 0]
    /\ Len(last.calls) = 3
    /\ last.calls[3].call = "UpdateSQLDatabaseThroughput"
    /\ last.calls[3].res = "notfound"
    /\ last.err = "ErrThroughputNotConfigurable"

\* the client methods that start an asynchronous remote operation
Initiations ==
    {"CreateUpdateSQLDatabase", "UpdateSQLDatabaseThroughput",
     "DeleteSQLDatabase", "CreateOrUpdate", "Delete"}

\* C14: in every handler of both kinds, a remote operation that was started
\* successfully is waited on by the very next call; the handler issues a
\* further remote call, or returns nil, only after that wait succeeded.
\* Hence no second operation is started while one is outstanding, the
\* set-throughput call of update comes after the completed upsert, and the
\* get of create that yields the resource ID comes after the completed
\* upsert.
C14_OperationsAreAwaited ==
    /\ \A i \in 1..Len(last.calls) :
           (last.calls[i].call \in Initiations /\ last.calls[i].res = "ok")
               => /\ i < Len(last.calls)
                  /\ last.calls[i + 1].call = "WaitForCompletionRef"
                  /\ (i + 1 < Len(last.calls) \/ last.err = "nil")
                         => last.calls[i + 1].res = "ok"
    /\ last.op = "dbUpdate"
           => \A i \in 1..Len(last.calls) :
                  last.calls[i].call = "UpdateSQLDatabaseThroughput"
                      => i = 3 /\ UpsertCompleted
    /\ (last.op = "dbCreate" /\ dbData.id # "")
           => /\ Len(last.calls) >= 4
              /\ last.calls[2].call = "CreateUpdateSQLDatabase"
              /\ last.calls[2].res = "ok"
              /\ last.calls[3].call = "WaitForCompletionRef"
              /\ last.calls[3].res = "ok"
              /\ last.calls[4].call = "GetSQLDatabase"

\* an update that completed the upsert and then the set-throughput
\* operation, and a create before it that set the resource ID
C14_Witness ==
    /\ last.op = "dbUpdate"
    /\ last.err = "nil"
    /\ UpsertCompleted
    /\ Len(last.calls) >= 6
    /\ last.calls[3].call = "UpdateSQLDatabaseThroughput"
    /\ last.calls[3].res = "ok"
    /\ last.calls[4].call = "WaitForCompletionRef"
    /\ last.calls[4].res = "ok"
    /\ last.calls[5].call = "GetSQLDatabase"
    /\ last.pre.name = ""

\* C15: the create/update request of a sync group carries the expansion of
\* the tables configured under the key "table": a run with a configuration
\* of at least one table issues CreateOrUpdate with the same tables and
\* columns, in the same order, as the configuration.
C15_RequestCarriesConfiguredTables ==
    (last.op \in {"sgCreate", "sgUpdate"} /\ Len(last.cfg) >= 1)
        => \E i \in 1..Len(last.calls) :
               /\ last.calls[i].call = "CreateOrUpdate"
               /\ flattenMsSqlSyncGroupSchemaTables(
                      Slice(last.calls[i].tables)) = last.cfg

\* C16: a document-database create whose existence check succeeds with an
\* object that has a nil or an empty ID returns the error of the import ID
\* (no panic, no AlreadyExists with an empty ID) and issues no create/update
\* call.
C16_DbCreateFoundWithoutId ==
    (/\ last.op = "dbCreate"
     /\ Len(last.calls) >= 1
     /\ FirstCall.res = "ok"
     /\ (FirstCall.id.nil \/ FirstCall.id.v = ""))
        => /\ last.err = "ErrGeneratingImportId"
           /\ ~Issued("CreateUpdateSQLDatabase")

====
